---- MODULE Spec2Model ----
(***************************************************************************)
(* Endzone-News (src/app.py): the concurrent feed aggregation pipeline.    *)
(*                                                                         *)
(*   FeedFetcher.fetch_single_feed      one feed -> list of articles       *)
(*   FeedFetcher.fetch_multiple_feeds   ThreadPoolExecutor scatter-gather  *)
(*   DataProcessor.deduplicate_dataframe / extract_team_from_title         *)
(*   fetch_all_news                     general batch, team batches,       *)
(*                                      dedup, sort                        *)
(*                                                                         *)
(* Text is a sequence of character codes (ASCII), so that strip, upper,    *)
(* substring search, tag stripping and hashing are computed, not assumed.  *)
(* Time is an integer number of days; the FeedFetcher is constructed at    *)
(* day 0.                                                                  *)
(***************************************************************************)
EXTENDS Integers, Sequences, FiniteSets, Bags, TLC

(***************************************************************************)
(* Bounds of the model.                                                    *)
(***************************************************************************)
\* max_workers is drawn from 1..MaxWorkers
MaxWorkers == 2
\* days_lookback is drawn from 1..MaxLookback
MaxLookback == 2
\* datetime.now() inside a fetch returns a day in 0..MaxClock
MaxClock == 1
\* general_news lists at most MaxGeneral feeds
MaxGeneral == 2
\* the inputs of the deduplication specification have at most MaxRows rows
MaxRows == 3
\* the headlines given to extract_team_from_title have at most MaxWords words
MaxWords == 3
\* the cleaned summaries have SummaryCap - MaxPad to SummaryCap + MaxPad
\* characters
MaxPad == 2

(***************************************************************************)
(* Text helpers: Python str methods on ASCII text.                         *)
(***************************************************************************)
Range(s) == {s[i] : i \in 1..Len(s)}

Min(a, b) == IF a <= b THEN a ELSE b

\* str.isspace on the ASCII range: \t \n \v \f \r, FS GS RS US, space
IsSpace(c) == c \in {9, 10, 11, 12, 13, 28, 29, 30, 31, 32}

\* str.upper on one ASCII character
UpperChar(c) == IF c >= 97 /\ c <= 122 THEN c - 32 ELSE c

\* text.upper()
Upper(text) == [i \in 1..Len(text) |-> UpperChar(text[i])]

RECURSIVE LStrip(_)
LStrip(text) ==
    IF text # <<>> /\ IsSpace(Head(text)) THEN LStrip(Tail(text)) ELSE text

RECURSIVE RStrip(_)
RStrip(text) ==
    IF text # <<>> /\ IsSpace(text[Len(text)])
    THEN RStrip(SubSeq(text, 1, Len(text) - 1))
    ELSE text

\* text.strip()
Strip(text) == RStrip(LStrip(text))

\* the Python test `k in text` on strings
IsSubstring(k, text) ==
    \E i \in 0..(Len(text) - Len(k)) : SubSeq(text, i + 1, i + Len(k)) = k

\* position of the first '>' (62) of s at or after index i, 0 if there is none
FirstGt(s, i) ==
    LET at == {j \in i..Len(s) : s[j] = 62}
    IN  IF at = {} THEN 0 ELSE CHOOSE j \in at : \A k \in at : j <= k

\* position where the leftmost match of r'<[^>]+>' in s starts, 0 if there is
\* none: a '<' (60) followed by at least one character other than '>' and
\* then a '>'
TagStart(s) ==
    LET at == {i \in 1..Len(s) : s[i] = 60 /\ FirstGt(s, i + 1) >= i + 2}
    IN  IF at = {} THEN 0 ELSE CHOOSE i \in at : \A k \in at : i <= k

\* re.sub(r'<[^>]+>', '', text): matches are taken left to right and do not
\* overlap; what is between them is kept
RECURSIVE StripTags(_)
StripTags(s) ==
    IF TagStart(s) = 0 THEN s
    ELSE SubSeq(s, 1, TagStart(s) - 1)
         \o StripTags(SubSeq(s, FirstGt(s, TagStart(s) + 1) + 1, Len(s)))

\* number of leading non-whitespace characters of s
WordLen(s) ==
    LET at == {i \in 1..Len(s) : IsSpace(s[i])}
    IN  IF at = {} THEN Len(s) ELSE (CHOOSE i \in at : \A k \in at : i <= k) - 1

\* text.split(): the maximal runs of non-whitespace characters
RECURSIVE SplitWords(_)
SplitWords(s) ==
    LET t == LStrip(s) IN
    IF t = <<>> THEN <<>>
    ELSE <<SubSeq(t, 1, WordLen(t))>>
         \o SplitWords(SubSeq(t, WordLen(t) + 1, Len(t)))

\* ' '.join(words)
RECURSIVE JoinSpace(_)
JoinSpace(words) ==
    IF words = <<>> THEN <<>>
    ELSE IF Len(words) = 1 THEN Head(words)
    ELSE Head(words) \o <<32>> \o JoinSpace(Tail(words))

(***************************************************************************)
(* FeedFetcher: the pure parts.                                            *)
(***************************************************************************)
\* FeedFetcher.__init__: max_entries defaults to 100 and is never overridden
max_entries == 100

\* clean_html: the length above which a summary is cut
SummaryCap == 300

\* mutant of clean_html: a text of exactly SummaryCap characters is cut too
clean_html_cut_at_cap(text) ==
    IF text = <<>> THEN <<>>
    ELSE LET t == JoinSpace(SplitWords(StripTags(text))) IN
         IF Len(t) >= SummaryCap
         THEN SubSeq(t, 1, SummaryCap) \o <<46, 46, 46>>
         ELSE t

\* FeedFetcher.clean_html
clean_html(text) ==
    IF text = <<>> THEN <<>>
    ELSE LET t == JoinSpace(SplitWords(StripTags(text))) IN
         IF Len(t) > SummaryCap
         THEN SubSeq(t, 1, SummaryCap) \o <<46, 46, 46>>
         ELSE t

\* A struct_time field of a feed entry: absent (None), a valid time (day t),
\* or present with fields datetime() rejects
NoTime == [kind |-> "none", t |-> 0]
BadTime == [kind |-> "bad", t |-> 0]
Time(d) == [kind |-> "ok", t |-> d]

\* A text field of a feed entry that may be missing
NoText == [has |-> FALSE, text |-> <<>>]
Text(s) == [has |-> TRUE, text |-> s]

\* entry.get('published_parsed') or entry.get('updated_parsed')
pub_parsed(entry) ==
    IF entry.published_parsed.kind # "none"
    THEN entry.published_parsed
    ELSE entry.updated_parsed

\* mutant of pub_date: the fallback is the least date, not datetime.now()
pub_date_min(entry, now) ==
    IF pub_parsed(entry).kind = "ok" THEN pub_parsed(entry).t
    ELSE 0 - MaxLookback - 2

\* lines 88-94: datetime(*pub_parsed[:6]), or datetime.now() when pub_parsed
\* is None or datetime() raises
pub_date(entry, now) ==
    IF pub_parsed(entry).kind = "ok" THEN pub_parsed(entry).t ELSE now

\* entry.get('summary', entry.get('description', ''))
entry_summary(entry) ==
    IF entry.summary.has THEN entry.summary.text
    ELSE IF entry.description.has THEN entry.description.text
    ELSE <<>>

\* line 84: the entry is skipped when `not title or not link`
entry_skipped(entry) == Strip(entry.title) = <<>> \/ entry.link = <<>>

\* mutant of is_recent: an exclusive cutoff
is_recent_strict(date, cutoff_date) == date > cutoff_date

\* line 96: the recency test
is_recent(date, cutoff_date) == date >= cutoff_date

\* lines 100-106: the article built from an entry
article_of(entry, date, source_name) ==
    [title |-> Strip(entry.title),
     link |-> entry.link,
     published |-> date,
     source |-> source_name,
     summary |-> clean_html(entry_summary(entry))]

\* lines 80-106: the loop over feed.entries[:max_entries]; nows[i] is what
\* datetime.now() returns in iteration i
RECURSIVE articles_loop(_, _, _, _, _)
articles_loop(entries, nows, i, cutoff_date, source_name) ==
    IF i > Min(Len(entries), max_entries) THEN <<>>
    ELSE LET entry == entries[i]
             date == pub_date(entry, nows[i])
             rest == articles_loop(entries, nows, i + 1, cutoff_date, source_name)
         IN  IF entry_skipped(entry) THEN rest
             ELSE IF is_recent(date, cutoff_date)
                  THEN <<article_of(entry, date, source_name)>> \o rest
                  ELSE rest

\* the values of the local pub_date at line 96, one per entry not skipped
RECURSIVE resolved_loop(_, _, _)
resolved_loop(entries, nows, i) ==
    IF i > Min(Len(entries), max_entries) THEN <<>>
    ELSE LET entry == entries[i]
             rest == resolved_loop(entries, nows, i + 1)
         IN  IF entry_skipped(entry) THEN rest
             ELSE <<[title |-> Strip(entry.title), link |-> entry.link,
                     date |-> pub_date(entry, nows[i])]>> \o rest

(***************************************************************************)
(* DataProcessor.                                                          *)
(***************************************************************************)
\* create_hash: hashlib.md5(text.encode()).hexdigest().  The digest is a
\* deterministic function of the bytes of the text; it is computed here as a
\* 16-bit polynomial digest of the character codes.
RECURSIVE digest(_, _)
digest(text, h) ==
    IF text = <<>> THEN h
    ELSE digest(Tail(text), (h * 31 + Head(text)) % 65536)

create_hash(text) == digest(text, 7)

\* mutant of drop_duplicates: keep='last'
drop_duplicates_keep_last(df) ==
    LET keep(i) == \A j \in (i + 1)..Len(df) :
                       create_hash(df[j].headline) # create_hash(df[i].headline)
        RECURSIVE pick(_)
        pick(i) == IF i > Len(df) THEN <<>>
                   ELSE IF keep(i) THEN <<df[i]>> \o pick(i + 1)
                   ELSE pick(i + 1)
    IN  pick(1)

\* mutant of drop_duplicates: a row is dropped only when the row just before
\* it has the same hash
drop_adjacent_duplicates(df) ==
    LET keep(i) == i = 1 \/ create_hash(df[i - 1].headline) # create_hash(df[i].headline)
        RECURSIVE pick(_)
        pick(i) == IF i > Len(df) THEN <<>>
                   ELSE IF keep(i) THEN <<df[i]>> \o pick(i + 1)
                   ELSE pick(i + 1)
    IN  pick(1)

\* df.drop_duplicates(subset=['hash']): row i stays iff no earlier row has
\* the same hash (keep='first')
drop_duplicates(df) ==
    LET keep(i) == \A j \in 1..(i - 1) :
                       create_hash(df[j].headline) # create_hash(df[i].headline)
        RECURSIVE pick(_)
        pick(i) == IF i > Len(df) THEN <<>>
                   ELSE IF keep(i) THEN <<df[i]>> \o pick(i + 1)
                   ELSE pick(i + 1)
    IN  pick(1)

\* DataProcessor.deduplicate_dataframe
deduplicate_dataframe(df) == IF df = <<>> THEN df ELSE drop_duplicates(df)

\* the ordered keyword table of extract_team_from_title (a dict literal:
\* iteration is in insertion order); each entry is <<keyword, team>>
team_keywords ==
  <<
     <<<<67,65,82,68,73,78,65,76,83>>,
       <<65,114,105,122,111,110,97,32,67,97,114,100,105,110,97,108,115>>>>,   \* CARDINALS -> Arizona Cardinals
     <<<<70,65,76,67,79,78,83>>,
       <<65,116,108,97,110,116,97,32,70,97,108,99,111,110,115>>>>,   \* FALCONS -> Atlanta Falcons
     <<<<82,65,86,69,78,83>>,
       <<66,97,108,116,105,109,111,114,101,32,82,97,118,101,110,115>>>>,   \* RAVENS -> Baltimore Ravens
     <<<<66,73,76,76,83>>,
       <<66,117,102,102,97,108,111,32,66,105,108,108,115>>>>,   \* BILLS -> Buffalo Bills
     <<<<80,65,78,84,72,69,82,83>>,
       <<67,97,114,111,108,105,110,97,32,80,97,110,116,104,101,114,115>>>>,   \* PANTHERS -> Carolina Panthers
     <<<<66,69,65,82,83>>,
       <<67,104,105,99,97,103,111,32,66,101,97,114,115>>>>,   \* BEARS -> Chicago Bears
     <<<<66,69,78,71,65,76,83>>,
       <<67,105,110,99,105,110,110,97,116,105,32,66,101,110,103,97,108,115>>>>,   \* BENGALS -> Cincinnati Bengals
     <<<<66,82,79,87,78,83>>,
       <<67,108,101,118,101,108,97,110,100,32,66,114,111,119,110,115>>>>,   \* BROWNS -> Cleveland Browns
     <<<<67,79,87,66,79,89,83>>,
       <<68,97,108,108,97,115,32,67,111,119,98,111,121,115>>>>,   \* COWBOYS -> Dallas Cowboys
     <<<<66,82,79,78,67,79,83>>,
       <<68,101,110,118,101,114,32,66,114,111,110,99,111,115>>>>,   \* BRONCOS -> Denver Broncos
     <<<<76,73,79,78,83>>,
       <<68,101,116,114,111,105,116,32,76,105,111,110,115>>>>,   \* LIONS -> Detroit Lions
     <<<<80,65,67,75,69,82,83>>,
       <<71,114,101,101,110,32,66,97,121,32,80,97,99,107,101,114,115>>>>,   \* PACKERS -> Green Bay Packers
     <<<<84,69,88,65,78,83>>,
       <<72,111,117,115,116,111,110,32,84,101,120,97,110,115>>>>,   \* TEXANS -> Houston Texans
     <<<<67,79,76,84,83>>,
       <<73,110,100,105,97,110,97,112,111,108,105,115,32,67,111,108,116,115>>>>,   \* COLTS -> Indianapolis Colts
     <<<<74,65,71,85,65,82,83>>,
       <<74,97,99,107,115,111,110,118,105,108,108,101,32,74,97,103,117,97,114,115>>>>,   \* JAGUARS -> Jacksonville Jaguars
     <<<<67,72,73,69,70,83>>,
       <<75,97,110,115,97,115,32,67,105,116,121,32,67,104,105,101,102,115>>>>,   \* CHIEFS -> Kansas City Chiefs
     <<<<82,65,73,68,69,82,83>>,
       <<76,97,115,32,86,101,103,97,115,32,82,97,105,100,101,114,115>>>>,   \* RAIDERS -> Las Vegas Raiders
     <<<<67,72,65,82,71,69,82,83>>,
       <<76,111,115,32,65,110,103,101,108,101,115,32,67,104,97,114,103,101,114,115>>>>,   \* CHARGERS -> Los Angeles Chargers
     <<<<82,65,77,83>>,
       <<76,111,115,32,65,110,103,101,108,101,115,32,82,97,109,115>>>>,   \* RAMS -> Los Angeles Rams
     <<<<68,79,76,80,72,73,78,83>>,
       <<77,105,97,109,105,32,68,111,108,112,104,105,110,115>>>>,   \* DOLPHINS -> Miami Dolphins
     <<<<86,73,75,73,78,71,83>>,
       <<77,105,110,110,101,115,111,116,97,32,86,105,107,105,110,103,115>>>>,   \* VIKINGS -> Minnesota Vikings
     <<<<80,65,84,82,73,79,84,83>>,
       <<78,101,119,32,69,110,103,108,97,110,100,32,80,97,116,114,105,111,116,115>>>>,   \* PATRIOTS -> New England Patriots
     <<<<83,65,73,78,84,83>>,
       <<78,101,119,32,79,114,108,101,97,110,115,32,83,97,105,110,116,115>>>>,   \* SAINTS -> New Orleans Saints
     <<<<71,73,65,78,84,83>>,
       <<78,101,119,32,89,111,114,107,32,71,105,97,110,116,115>>>>,   \* GIANTS -> New York Giants
     <<<<74,69,84,83>>,
       <<78,101,119,32,89,111,114,107,32,74,101,116,115>>>>,   \* JETS -> New York Jets
     <<<<69,65,71,76,69,83>>,
       <<80,104,105,108,97,100,101,108,112,104,105,97,32,69,97,103,108,101,115>>>>,   \* EAGLES -> Philadelphia Eagles
     <<<<83,84,69,69,76,69,82,83>>,
       <<80,105,116,116,115,98,117,114,103,104,32,83,116,101,101,108,101,114,115>>>>,   \* STEELERS -> Pittsburgh Steelers
     <<<<52,57,69,82,83>>,
       <<83,97,110,32,70,114,97,110,99,105,115,99,111,32,52,57,101,114,115>>>>,   \* 49ERS -> San Francisco 49ers
     <<<<83,69,65,72,65,87,75,83>>,
       <<83,101,97,116,116,108,101,32,83,101,97,104,97,119,107,115>>>>,   \* SEAHAWKS -> Seattle Seahawks
     <<<<66,85,67,67,65,78,69,69,82,83>>,
       <<84,97,109,112,97,32,66,97,121,32,66,117,99,99,97,110,101,101,114,115>>>>,   \* BUCCANEERS -> Tampa Bay Buccaneers
     <<<<66,85,67,83>>,
       <<84,97,109,112,97,32,66,97,121,32,66,117,99,99,97,110,101,101,114,115>>>>,   \* BUCS -> Tampa Bay Buccaneers
     <<<<84,73,84,65,78,83>>,
       <<84,101,110,110,101,115,115,101,101,32,84,105,116,97,110,115>>>>,   \* TITANS -> Tennessee Titans
     <<<<67,79,77,77,65,78,68,69,82,83>>,
       <<87,97,115,104,105,110,103,116,111,110,32,67,111,109,109,97,110,100,101,114,115>>>>   \* COMMANDERS -> Washington Commanders
  >>

\* the sentinel category 'NFL General'
NFL_General == <<78,70,76,32,71,101,110,101,114,97,108>>

\* index of the first occurrence of k in text, 0 if there is none
FirstPos(k, text) ==
    LET at == {i \in 1..(Len(text) - Len(k) + 1) : SubSeq(text, i, i + Len(k) - 1) = k}
    IN  IF at = {} THEN 0 ELSE CHOOSE i \in at : \A j \in at : i <= j

\* mutant of extract_team_from_title: the keyword that comes first in the
\* text wins, not the one that comes first in the table
extract_team_by_position(text, teams) ==
    LET text_upper == Upper(text)
        kw_hits == {i \in 1..Len(team_keywords) :
                        IsSubstring(team_keywords[i][1], text_upper)}
        team_hits == {i \in 1..Len(teams) :
                        IsSubstring(Upper(teams[i]), text_upper)}
        pos(i) == FirstPos(team_keywords[i][1], text_upper)
        leftmost(S) == CHOOSE i \in S : \A j \in S : pos(i) <= pos(j)
        first(S) == CHOOSE i \in S : \A j \in S : i <= j
    IN  IF kw_hits # {} THEN team_keywords[leftmost(kw_hits)][2]
        ELSE IF team_hits # {} THEN teams[first(team_hits)]
        ELSE NFL_General

\* DataProcessor.extract_team_from_title
extract_team_from_title(text, teams) ==
    LET text_upper == Upper(text)
        kw_hits == {i \in 1..Len(team_keywords) :
                        IsSubstring(team_keywords[i][1], text_upper)}
        team_hits == {i \in 1..Len(teams) :
                        IsSubstring(Upper(teams[i]), text_upper)}
        first(S) == CHOOSE i \in S : \A j \in S : i <= j
    IN  IF kw_hits # {} THEN team_keywords[first(kw_hits)][2]
        ELSE IF team_hits # {} THEN teams[first(team_hits)]
        ELSE NFL_General

(***************************************************************************)
(* Configuration (config.json) and the feeds on the network.               *)
(***************************************************************************)
ESPN == <<69,83,80,78>>
CBS == <<67,66,83>>
Buffalo_Bills == <<66,117,102,102,97,108,111,32,66,105,108,108,115>>
New_York_Jets == <<78,101,119,32,89,111,114,107,32,74,101,116,115>>

\* CONFIG['teams']
TEAMS == <<Buffalo_Bills, New_York_Jets>>

Entry(title, link, published, updated, summary, description) ==
    [title |-> title, link |-> link, published_parsed |-> published,
     updated_parsed |-> updated, summary |-> summary, description |-> description]

\* feed.entries of feedparser.parse(url) when the url answers with entries.
\*   u1: "Jets" day 0, summary "<b>x</b> y"; " Rams " updated day -1
\*   u2: "Jets" day -2; an entry without title; "Draft" with a publish time
\*       datetime() rejects
\*   u3: "Jets" without any time; "Rams" with a whitespace link, day 1;
\*       "Bills" day -1
feed_entries(url) ==
    CASE url = "u1" ->
           <<Entry(<<74,101,116,115>>, <<97>>, Time(0), NoTime,
                   Text(<<60,98,62,120,60,47,98,62,32,121>>), NoText),
             Entry(<<32,82,97,109,115,32>>, <<98>>, NoTime, Time(-1),
                   NoText, Text(<<100>>))>>
      [] url = "u2" ->
           <<Entry(<<74,101,116,115>>, <<98>>, Time(-2), Time(0), NoText, NoText),
             Entry(<<>>, <<97>>, Time(0), NoTime, NoText, NoText),
             Entry(<<68,114,97,102,116>>, <<99>>, BadTime, Time(0), NoText, NoText)>>
      [] OTHER ->
           <<Entry(<<74,101,116,115>>, <<99>>, NoTime, NoTime, NoText, NoText),
             Entry(<<82,97,109,115>>, <<32>>, Time(1), NoTime, NoText, NoText),
             Entry(<<66,105,108,108,115>>, <<100>>, Time(-1), NoTime, NoText, NoText)>>

SeqsUpTo(S, n) == UNION {[1..k -> S] : k \in 0..n}

\* the enabled descriptors general_news may list
GeneralSources ==
    {[url |-> "u1", name |-> ESPN, enabled |-> TRUE],
     [url |-> "u2", name |-> CBS, enabled |-> TRUE]}

\* a descriptor that is switched off
DisabledSource == [url |-> "u3", name |-> CBS, enabled |-> FALSE]

\* the values general_news may have: up to MaxGeneral enabled descriptors, in
\* any order and with repetitions, and a disabled one
GeneralConfigs ==
    {s \o <<DisabledSource>> : s \in SeqsUpTo(GeneralSources, MaxGeneral)}

\* team_feeds is an ordered mapping team -> feeds, where feeds is a list of
\* urls (possibly with empty urls) or something else
OneTeam ==
    <<[team |-> New_York_Jets, is_list |-> FALSE, urls |-> <<>>],
      [team |-> Buffalo_Bills, is_list |-> TRUE, urls |-> <<"", "u3">>]>>

TwoTeams ==
    <<[team |-> Buffalo_Bills, is_list |-> TRUE, urls |-> <<"u1", "u3">>],
      [team |-> New_York_Jets, is_list |-> TRUE, urls |-> <<"u2">>]>>

\* the values CONFIG['rss_feeds'] may have
FeedConfigs ==
    {[general_news |-> g, team_feeds |-> t] :
        g \in GeneralConfigs, t \in {<<>>, OneTeam}}
    \cup {[general_news |-> <<DisabledSource>>, team_feeds |-> TwoTeams]}

\* what datetime.now() may return in the iterations of one fetch: days in
\* 0..MaxClock that never decrease; an iteration that does not call it gets 0
NowChoices(entries) ==
    LET n == Min(Len(entries), max_entries)
        calls(i) == ~entry_skipped(entries[i]) /\ pub_parsed(entries[i]).kind # "ok"
    IN  {nows \in [1..n -> 0..MaxClock] :
            /\ \A i \in 1..n : ~calls(i) => nows[i] = 0
            /\ \A i, j \in 1..n : (calls(i) /\ calls(j) /\ i < j) => nows[i] <= nows[j]}

(***************************************************************************)
(* State.                                                                  *)
(***************************************************************************)
VARIABLES
    RSS_FEEDS,       \* CONFIG['rss_feeds']: [general_news, team_feeds]
    max_workers,     \* APP['max_workers']
    days_lookback,   \* APP['days_lookback']
    pc,              \* position of fetch_all_news
    cutoff_date,     \* fetcher.cutoff_date
    success_count,   \* fetcher.success_count
    error_count,     \* fetcher.error_count
    news_items,      \* the list news_items of fetch_all_news
    team_idx,        \* number of team_feeds entries the loop has handled
    df,              \* the DataFrame of fetch_all_news
    fpc,             \* position of fetch_multiple_feeds
    feeds,           \* its argument: a list of <<url, name>>
    articles,        \* its local list
    futures,         \* the futures submitted, in submission order
    work_queue,      \* the executor's queue of submitted work items
    workers,         \* the executor's threads
    submitted_total, \* history: fetches submitted since the invocation began
    dd               \* the run of a pure function: its input and its output

vars == <<RSS_FEEDS, max_workers, days_lookback, pc, cutoff_date, success_count,
          error_count, news_items, team_idx, df, fpc, feeds, articles, futures,
          work_queue, workers, submitted_total, dd>>

config_vars == <<RSS_FEEDS, max_workers, days_lookback>>
fetcher_vars == <<cutoff_date, success_count, error_count>>
executor_vars == <<futures, work_queue, workers>>

IdleWorker == [pc |-> "idle", task |-> 0, tmp |-> 0, ok |-> FALSE, result |-> <<>>]

\* lines 211-215: the enabled general feeds, as (url, name) pairs
general_feeds ==
    LET RECURSIVE pick(_)
        pick(i) ==
            IF i > Len(RSS_FEEDS.general_news) THEN <<>>
            ELSE IF RSS_FEEDS.general_news[i].enabled
                 THEN <<<<RSS_FEEDS.general_news[i].url,
                          RSS_FEEDS.general_news[i].name>>>> \o pick(i + 1)
                 ELSE pick(i + 1)
    IN  pick(1)

\* line 234: [(url, team) for url in feeds if url]
team_feed_list(entry) ==
    LET RECURSIVE pick(_)
        pick(i) ==
            IF i > Len(entry.urls) THEN <<>>
            ELSE IF entry.urls[i] # ""
                 THEN <<<<entry.urls[i], entry.team>>>> \o pick(i + 1)
                 ELSE pick(i + 1)
    IN  pick(1)

(***************************************************************************)
(* FeedFetcher.fetch_single_feed, as run by one executor thread.           *)
(***************************************************************************)
\* what feedparser.parse(url) may do: raise (connection refused, malformed
\* body), answer without entries, or answer with the entries of the feed
ParseOutcomes(url) ==
    {[raised |-> TRUE, entries |-> <<>>],
     [raised |-> FALSE, entries |-> <<>>],
     [raised |-> FALSE, entries |-> feed_entries(url)]}

\* lines 70-113 up to the counter update: whether the success branch
\* (line 108) or an error branch (line 76 or 112) is taken, and the list the
\* call is going to return
fetch_single_feed(parsed, nows, cutoff, source_name) ==
    IF parsed.raised \/ parsed.entries = <<>>
    THEN [ok |-> FALSE, articles |-> <<>>]
    ELSE [ok |-> TRUE,
          articles |-> articles_loop(parsed.entries, nows, 1, cutoff, source_name)]

\* mutant of queue_after_get: the work item is read and left in the queue
queue_after_peek(queue) == queue

\* queue.get() of the executor thread: the work item taken leaves the queue
queue_after_get(queue) == Tail(queue)

\* A thread takes the next work item and runs fetch_single_feed up to the
\* counter update.  Idle threads are interchangeable: the one of least index
\* is the one that gets the item.
WorkerRun(w) ==
    /\ fpc \in {"submit", "gather"}
    /\ workers[w].pc = "idle"
    /\ \A v \in 1..(w - 1) : workers[v].pc # "idle"
    /\ work_queue # <<>>
    /\ LET i == Head(work_queue)
           url == feeds[i][1]
           source_name == feeds[i][2]
       IN  \E parsed \in ParseOutcomes(url) :
           \E nows \in NowChoices(parsed.entries) :
             LET r == fetch_single_feed(parsed, nows, cutoff_date, source_name) IN
             /\ futures' = [futures EXCEPT
                    ![i].state = "running",
                    ![i].calls = @ + 1,
                    ![i].outcome = IF parsed.raised THEN "raise"
                                   ELSE IF parsed.entries = <<>> THEN "empty"
                                   ELSE "ok",
                    ![i].resolved = IF r.ok THEN resolved_loop(parsed.entries, nows, 1)
                                    ELSE <<>>]
             /\ workers' = [workers EXCEPT
                    ![w] = [pc |-> "read", task |-> i, tmp |-> 0,
                            ok |-> r.ok, result |-> r.articles]]
    /\ work_queue' = queue_after_get(work_queue)
    /\ UNCHANGED <<config_vars, fetcher_vars, pc, news_items, team_idx, df, fpc,
                   feeds, articles, submitted_total, dd>>

\* `self.success_count += 1` / `self.error_count += 1`: the read
WorkerRead(w) ==
    /\ workers[w].pc = "read"
    /\ workers' = [workers EXCEPT
           ![w].pc = "write",
           ![w].tmp = IF workers[w].ok THEN success_count ELSE error_count]
    /\ UNCHANGED <<config_vars, fetcher_vars, pc, news_items, team_idx, df, fpc,
                   feeds, articles, futures, work_queue, submitted_total, dd>>

\* the value the update stores, from the value it read
incremented(tmp) == tmp + 1

\* the write of the counter, then `return`: the future gets its result
WorkerWrite(w) ==
    /\ workers[w].pc = "write"
    /\ IF workers[w].ok
       THEN /\ success_count' = incremented(workers[w].tmp)
            /\ UNCHANGED error_count
       ELSE /\ error_count' = incremented(workers[w].tmp)
            /\ UNCHANGED success_count
    /\ futures' = [futures EXCEPT
           ![workers[w].task].state = "finished",
           ![workers[w].task].result = workers[w].result]
    /\ workers' = [workers EXCEPT ![w] = IdleWorker]
    /\ UNCHANGED <<config_vars, cutoff_date, pc, news_items, team_idx, df, fpc,
                   feeds, articles, work_queue, submitted_total, dd>>

(***************************************************************************)
(* FeedFetcher.fetch_multiple_feeds, run by the main thread.               *)
(***************************************************************************)
NewFuture == [state |-> "pending", outcome |-> "none", result |-> <<>>,
              yielded |-> FALSE, calls |-> 0, resolved |-> <<>>]

\* lines 117-119: the call begins with an empty list and a new executor
EnterFetchMultiple(list) ==
    /\ feeds' = list
    /\ articles' = <<>>
    /\ futures' = <<>>
    /\ work_queue' = <<>>
    /\ workers' = <<>>
    /\ fpc' = "submit"

\* mutant of may_start_thread: one thread per submitted task, no bound
may_start_thread_unbounded(num_threads) == TRUE

\* ThreadPoolExecutor(max_workers): submit starts a new thread only while
\* fewer than max_workers exist
may_start_thread(num_threads) == num_threads < max_workers

\* lines 120-121: executor.submit for the next (url, name) of feeds
Submit ==
    /\ fpc = "submit"
    /\ Len(futures) < Len(feeds)
    /\ futures' = Append(futures, NewFuture)
    /\ work_queue' = Append(work_queue, Len(futures) + 1)
    /\ workers' = IF may_start_thread(Len(workers))
                  THEN Append(workers, IdleWorker)
                  ELSE workers
    /\ submitted_total' = submitted_total + 1
    /\ UNCHANGED <<config_vars, fetcher_vars, pc, news_items, team_idx, df, fpc,
                   feeds, articles, dd>>

\* mutant of all_submitted: the join begins after the first submit
first_submitted == Len(futures) >= Min(1, Len(feeds))

\* the dict comprehension of lines 120-121 is complete
all_submitted == Len(futures) = Len(feeds)

\* line 123: the main thread enters as_completed(futures)
StartGather ==
    /\ fpc = "submit"
    /\ all_submitted
    /\ fpc' = "gather"
    /\ UNCHANGED <<config_vars, fetcher_vars, pc, news_items, team_idx, df,
                   feeds, articles, executor_vars, submitted_total, dd>>

\* mutant of extend: the result replaces the list (`articles = future.result()`)
extend_replacing(list, result) == result

\* line 125: articles.extend(future.result())
extend(list, result) == list \o result

\* lines 123-125: as_completed yields a finished future not yet yielded
Gather ==
    /\ fpc = "gather"
    /\ \E i \in 1..Len(futures) :
         /\ futures[i].state = "finished"
         /\ ~futures[i].yielded
         /\ articles' = extend(articles, futures[i].result)
         /\ futures' = [futures EXCEPT ![i].yielded = TRUE]
    /\ UNCHANGED <<config_vars, fetcher_vars, pc, news_items, team_idx, df, fpc,
                   feeds, work_queue, workers, submitted_total, dd>>

\* mutant of join_complete: the call returns at the first result
\* (wait for FIRST_COMPLETED, shutdown(wait=False))
join_first_completed ==
    futures = <<>> \/ \E i \in 1..Len(futures) : futures[i].yielded

\* as_completed is exhausted (every future was yielded) and the `with` block
\* has left: shutdown(wait=True) joined the threads
join_complete ==
    /\ \A i \in 1..Len(futures) : futures[i].yielded
    /\ work_queue = <<>>
    /\ \A w \in 1..Len(workers) : workers[w].pc = "idle"

\* line 129: return articles
FetchMultipleReturn ==
    /\ fpc = "gather"
    /\ join_complete
    /\ fpc' = "returned"
    /\ UNCHANGED <<config_vars, fetcher_vars, pc, news_items, team_idx, df,
                   feeds, articles, executor_vars, submitted_total, dd>>

(***************************************************************************)
(* fetch_all_news.                                                         *)
(***************************************************************************)
\* mutant of append_all: the records go to the front of the list
insert_all_front(items, new) == new \o items

\* news_items.append(...) for each record of a batch, in the order of the batch
append_all(items, new) == items \o new

\* lines 222-229 and 238-245: the record appended for an article
news_item(team, article) ==
    [team |-> team, headline |-> article.title, link |-> article.link,
     date |-> article.published, source |-> article.source,
     summary |-> article.summary]

\* lines 220-229: records of a general feed get the inferred team
general_items(list) ==
    [i \in 1..Len(list) |->
        news_item(extract_team_from_title(list[i].title, TEAMS), list[i])]

\* mutant of team_items: the team is inferred from the headline
team_items_inferred(team, list) == general_items(list)

\* lines 237-245: records of a team feed get the team of the feed
team_items(team, list) == [i \in 1..Len(list) |-> news_item(team, list[i])]

\* line 208-209
Construct ==
    /\ pc = "start"
    /\ cutoff_date' = 0 - days_lookback
    /\ success_count' = 0
    /\ error_count' = 0
    /\ news_items' = <<>>
    /\ pc' = "general"
    /\ UNCHANGED <<config_vars, team_idx, df, fpc, feeds, articles,
                   executor_vars, submitted_total, dd>>

\* lines 217-218
CallGeneral ==
    /\ pc = "general"
    /\ general_feeds # <<>>
    /\ EnterFetchMultiple(general_feeds)
    /\ pc' = "general_call"
    /\ UNCHANGED <<config_vars, fetcher_vars, news_items, team_idx, df,
                   submitted_total, dd>>

\* line 217, the list is empty
SkipGeneral ==
    /\ pc = "general"
    /\ general_feeds = <<>>
    /\ pc' = "teams"
    /\ UNCHANGED <<config_vars, fetcher_vars, news_items, team_idx, df, fpc,
                   feeds, articles, executor_vars, submitted_total, dd>>

\* lines 220-229
AppendGeneral ==
    /\ pc = "general_call"
    /\ fpc = "returned"
    /\ news_items' = append_all(news_items, general_items(articles))
    /\ pc' = "teams"
    /\ fpc' = "none"
    /\ UNCHANGED <<config_vars, fetcher_vars, team_idx, df, feeds, articles,
                   executor_vars, submitted_total, dd>>

\* lines 232-235: the next team whose feeds are a list
CallTeam ==
    /\ pc = "teams"
    /\ team_idx < Len(RSS_FEEDS.team_feeds)
    /\ RSS_FEEDS.team_feeds[team_idx + 1].is_list
    /\ EnterFetchMultiple(team_feed_list(RSS_FEEDS.team_feeds[team_idx + 1]))
    /\ pc' = "team_call"
    /\ UNCHANGED <<config_vars, fetcher_vars, news_items, team_idx, df,
                   submitted_total, dd>>

\* line 233: a team whose feeds are not a list is passed over
SkipTeam ==
    /\ pc = "teams"
    /\ team_idx < Len(RSS_FEEDS.team_feeds)
    /\ ~RSS_FEEDS.team_feeds[team_idx + 1].is_list
    /\ team_idx' = team_idx + 1
    /\ UNCHANGED <<config_vars, fetcher_vars, pc, news_items, df, fpc, feeds,
                   articles, executor_vars, submitted_total, dd>>

\* lines 237-245
AppendTeam ==
    /\ pc = "team_call"
    /\ fpc = "returned"
    /\ news_items' = append_all(news_items,
           team_items(RSS_FEEDS.team_feeds[team_idx + 1].team, articles))
    /\ team_idx' = team_idx + 1
    /\ pc' = "teams"
    /\ fpc' = "none"
    /\ UNCHANGED <<config_vars, fetcher_vars, df, feeds, articles,
                   executor_vars, submitted_total, dd>>

\* lines 247-248
ReturnEmpty ==
    /\ pc = "teams"
    /\ team_idx = Len(RSS_FEEDS.team_feeds)
    /\ news_items = <<>>
    /\ df' = <<>>
    /\ pc' = "done"
    /\ UNCHANGED <<config_vars, fetcher_vars, news_items, team_idx, fpc, feeds,
                   articles, executor_vars, submitted_total, dd>>

\* lines 250-251
Deduplicate ==
    /\ pc = "teams"
    /\ team_idx = Len(RSS_FEEDS.team_feeds)
    /\ news_items # <<>>
    /\ df' = deduplicate_dataframe(news_items)
    /\ pc' = "sort"
    /\ UNCHANGED <<config_vars, fetcher_vars, news_items, team_idx, fpc, feeds,
                   articles, executor_vars, submitted_total, dd>>

\* mutant of date_order: ascending=True
date_order_ascending(a, b) == a.date <= b.date

\* sort_values('date', ascending=False): the order of two adjacent rows
date_order(a, b) == a.date >= b.date

\* the frames sort_values may return: the rows of frame, ordered by date; the
\* default sort (quicksort) is not stable, so rows of equal date come in any
\* order
sort_values(frame) ==
    LET n == Len(frame)
        perms == {p \in [1..n -> 1..n] : \A i, j \in 1..n : i # j => p[i] # p[j]}
        sorted(p) == \A i \in 1..(n - 1) : date_order(frame[p[i]], frame[p[i + 1]])
    IN  {[i \in 1..n |-> frame[p[i]]] : p \in {q \in perms : sorted(q)}}

\* lines 252-254
Sort ==
    /\ pc = "sort"
    /\ df' \in sort_values(df)
    /\ pc' = "done"
    /\ UNCHANGED <<config_vars, fetcher_vars, news_items, team_idx, fpc, feeds,
                   articles, executor_vars, submitted_total, dd>>

(***************************************************************************)
(* The specification of the pipeline.                                      *)
(***************************************************************************)
NoDedupRun == [pc |-> "off", inp |-> <<>>, out |-> <<>>, inp2 |-> <<>>, out2 |-> <<>>]

Init ==
    /\ RSS_FEEDS \in FeedConfigs
    /\ max_workers \in 1..MaxWorkers
    /\ days_lookback \in 1..MaxLookback
    /\ pc = "start"
    /\ cutoff_date = 0
    /\ success_count = 0
    /\ error_count = 0
    /\ news_items = <<>>
    /\ team_idx = 0
    /\ df = <<>>
    /\ fpc = "none"
    /\ feeds = <<>>
    /\ articles = <<>>
    /\ futures = <<>>
    /\ work_queue = <<>>
    /\ workers = <<>>
    /\ submitted_total = 0
    /\ dd = NoDedupRun

Next ==
    \/ Construct
    \/ CallGeneral
    \/ SkipGeneral
    \/ Submit
    \/ StartGather
    \/ \E w \in 1..Len(workers) : WorkerRun(w)
    \/ \E w \in 1..Len(workers) : WorkerRead(w)
    \/ \E w \in 1..Len(workers) : WorkerWrite(w)
    \/ Gather
    \/ FetchMultipleReturn
    \/ AppendGeneral
    \/ CallTeam
    \/ SkipTeam
    \/ AppendTeam
    \/ ReturnEmpty
    \/ Deduplicate
    \/ Sort

Spec == Init /\ [][Next]_vars

\* The join does not depend on the dates: the fair specification fixes
\* days_lookback.  The executor's threads and the main thread are scheduled by
\* the operating system, so a step that stays possible is taken.
InitFair == Init /\ days_lookback = 1

FairSpec == InitFair /\ [][Next]_vars /\ WF_vars(Next)

(***************************************************************************)
(* The specification of deduplication as a function of its input frame.    *)
(***************************************************************************)
\* rows a frame may hold: headlines "Jets", "Rams" and "jets", two links
DedupRows ==
    {[team |-> NFL_General, headline |-> h, link |-> l, date |-> 0,
      source |-> ESPN, summary |-> <<>>] :
        h \in {<<74,101,116,115>>, <<82,97,109,115>>, <<106,101,116,115>>},
        l \in {<<97>>, <<98>>}}

\* the orderings of the rows of frame
Reorderings(frame) ==
    LET n == Len(frame)
        perms == {p \in [1..n -> 1..n] : \A i, j \in 1..n : i # j => p[i] # p[j]}
    IN  {[i \in 1..n |-> frame[p[i]]] : p \in perms}

InitDedup ==
    /\ RSS_FEEDS = [general_news |-> <<>>, team_feeds |-> <<>>]
    /\ max_workers = 1
    /\ days_lookback = 1
    /\ pc = "off"
    /\ cutoff_date = 0
    /\ success_count = 0
    /\ error_count = 0
    /\ news_items = <<>>
    /\ team_idx = 0
    /\ df = <<>>
    /\ fpc = "none"
    /\ feeds = <<>>
    /\ articles = <<>>
    /\ futures = <<>>
    /\ work_queue = <<>>
    /\ workers = <<>>
    /\ submitted_total = 0
    /\ dd \in {[pc |-> "in", inp |-> f, out |-> <<>>, inp2 |-> <<>>, out2 |-> <<>>] :
                 f \in SeqsUpTo(DedupRows, MaxRows)}

main_vars == <<config_vars, fetcher_vars, pc, news_items, team_idx, df, fpc,
               feeds, articles, executor_vars, submitted_total>>

\* deduplicate_dataframe(inp)
DedupFirst ==
    /\ dd.pc = "in"
    /\ dd' = [dd EXCEPT !.pc = "out", !.out = deduplicate_dataframe(dd.inp)]
    /\ UNCHANGED main_vars

\* deduplicate_dataframe on the same rows in another order
DedupReordered ==
    /\ dd.pc = "out"
    /\ \E f \in Reorderings(dd.inp) :
         dd' = [dd EXCEPT !.pc = "second", !.inp2 = f,
                          !.out2 = deduplicate_dataframe(f)]
    /\ UNCHANGED main_vars

\* deduplicate_dataframe on its own output
DedupAgain ==
    /\ dd.pc = "out"
    /\ dd' = [dd EXCEPT !.pc = "second", !.inp2 = dd.out,
                        !.out2 = deduplicate_dataframe(dd.out)]
    /\ UNCHANGED main_vars

NextDedup == DedupFirst \/ DedupReordered \/ DedupAgain

SpecDedup == InitDedup /\ [][NextDedup]_vars

(***************************************************************************)
(* Properties.                                                             *)
(***************************************************************************)
\* the multiset of the elements of a list
BagOfSeq(s) == [x \in Range(s) |-> Cardinality({i \in 1..Len(s) : s[i] = x})]

Failed(i) == futures[i].outcome \in {"raise", "empty"}

\* the multiset union of the results of the futures 1..n whose fetch succeeded
RECURSIVE SucceededBag(_)
SucceededBag(n) ==
    IF n = 0 THEN EmptyBag
    ELSE IF futures[n].outcome = "ok"
         THEN SucceededBag(n - 1) (+) BagOfSeq(futures[n].result)
         ELSE SucceededBag(n - 1)

\* C1: when fetch_multiple_feeds returns, every feed of the list was fetched,
\* each feed that failed (parse raised, or no entries) returned no article,
\* and the list returned is the multiset union of the lists returned by the
\* feeds that succeeded, in whatever order they completed.
C1_FailureIsolation ==
    fpc = "returned" =>
        /\ Len(futures) = Len(feeds)
        /\ \A i \in 1..Len(futures) : Failed(i) => futures[i].result = <<>>
        /\ BagOfSeq(articles) = SucceededBag(Len(futures))

\* a call returned in which one feed failed and another contributed articles
C1_Witness ==
    /\ fpc = "returned"
    /\ \E i, j \in 1..Len(futures) :
         /\ futures[i].outcome # "ok"
         /\ futures[j].outcome = "ok"
         /\ futures[j].result # <<>>
         /\ articles # <<>>

\* C2: after the first fetch_multiple_feeds call on a new FeedFetcher, with
\* more than one worker, returns, error_count is the number of feeds that failed and success_count +
\* error_count is the number of feeds.
C2_CountersExact ==
    (pc = "general_call" /\ fpc = "returned" /\ max_workers > 1) =>
        /\ error_count = Cardinality({i \in 1..Len(futures) : Failed(i)})
        /\ success_count + error_count = Len(feeds)

\* the number of fetch_single_feed calls running
InFlight == Cardinality({i \in 1..Len(futures) : futures[i].state = "running"})

\* C3: at most max_workers fetch_single_feed calls are in flight, and a feed
\* still in the queue has not begun.
C3_ConcurrencyBound ==
    /\ InFlight <= max_workers
    /\ \A k \in 1..Len(work_queue) : futures[work_queue[k]].state = "pending"

\* max_workers fetches are in flight while another feed waits in the queue
C3_Witness ==
    /\ InFlight = max_workers
    /\ work_queue # <<>>
    /\ Len(feeds) > max_workers

AllSettled ==
    /\ Len(futures) = Len(feeds)
    /\ \A i \in 1..Len(futures) : futures[i].state = "finished"

\* C4: fetch_multiple_feeds has returned only when every fetch it submitted
\* has settled, and, the threads being scheduled fairly, a call that has
\* begun returns.
C4_JoinBarrier ==
    /\ [](fpc = "returned" => AllSettled)
    /\ ((fpc = "submit") ~> (fpc = "returned"))

\* a call over two feeds or more has returned
C4_Witness ==
    /\ fpc = "returned"
    /\ Len(feeds) >= 2
    /\ AllSettled

\* the number of fetches of the first n team_feeds entries
RECURSIVE TeamFetches(_)
TeamFetches(n) ==
    IF n = 0 THEN 0
    ELSE TeamFetches(n - 1)
         + (IF RSS_FEEDS.team_feeds[n].is_list
            THEN Len(team_feed_list(RSS_FEEDS.team_feeds[n]))
            ELSE 0)

\* the number of fetches of one invocation
TotalFetches == Len(general_feeds) + TeamFetches(Len(RSS_FEEDS.team_feeds))

\* C5, as claimed: whenever the invocation waits on a join, every fetch of
\* the invocation (general feeds and all team feeds) has been submitted.
C5_SingleScatterGather ==
    fpc = "gather" => submitted_total = TotalFetches

\* C5, amended: whenever the invocation waits on a join, every fetch of the
\* batch being joined has been submitted, and the fetches submitted so far
\* are those of the batches up to this one; the batches (the general feeds,
\* then each team's feeds in configuration order) are joined one by one.
C5_PerBatchScatterGather ==
    fpc \in {"gather", "returned"} =>
        /\ Len(futures) = Len(feeds)
        /\ submitted_total =
             IF pc = "general_call" THEN Len(general_feeds)
             ELSE Len(general_feeds) + TeamFetches(team_idx + 1)

\* the join of a team batch, after a general batch, with team feeds in it
C5_Witness ==
    /\ pc = "team_call"
    /\ fpc = "gather"
    /\ general_feeds # <<>>
    /\ feeds # <<>>
    /\ submitted_total = TotalFetches

\* C6: every descriptor of the list is submitted at most once and fetched at
\* most once; a fetch that has begun, failed or not, is not in the queue
\* again.
C6_AtMostOnce ==
    /\ Len(futures) <= Len(feeds)
    /\ \A i \in 1..Len(futures) :
         /\ futures[i].calls <= 1
         /\ futures[i].state # "pending" =>
              /\ futures[i].calls = 1
              /\ \A k \in 1..Len(work_queue) : work_queue[k] # i

\* a call returned in which a feed failed, fetched once
C6_Witness ==
    /\ fpc = "returned"
    /\ \E i \in 1..Len(futures) : Failed(i) /\ futures[i].calls = 1

Fingerprints(frame) == {create_hash(frame[i].headline) : i \in 1..Len(frame)}

\* the first row of frame with fingerprint h
FirstWith(frame, h) ==
    frame[CHOOSE i \in 1..Len(frame) :
            /\ create_hash(frame[i].headline) = h
            /\ \A j \in 1..(i - 1) : create_hash(frame[j].headline) # h]

\* C7: the output of deduplicate_dataframe has no two rows with the same
\* headline fingerprint, has a row for every fingerprint of the input, and
\* for each fingerprint holds the first row of the input that has it.
C7_DedupFirstKept ==
    dd.pc # "in" =>
        /\ \A i, j \in 1..Len(dd.out) :
             i # j => create_hash(dd.out[i].headline) # create_hash(dd.out[j].headline)
        /\ Fingerprints(dd.out) = Fingerprints(dd.inp)
        /\ \A k \in 1..Len(dd.out) :
             dd.out[k] = FirstWith(dd.inp, create_hash(dd.out[k].headline))

\* an input with two fingerprints where a later duplicate, with another
\* link, was dropped
C7_Witness ==
    /\ dd.pc = "out"
    /\ Len(dd.out) = 2
    /\ \E i, j \in 1..Len(dd.inp) :
         /\ i < j
         /\ dd.inp[i].headline = dd.inp[j].headline
         /\ dd.inp[i].link # dd.inp[j].link

\* C8: deduplicate_dataframe on any reordering of the same rows, or on its
\* own output, gives the same set of fingerprints and the same number of rows.
C8_DedupOrderIndependent ==
    dd.pc = "second" =>
        /\ Fingerprints(dd.out2) = Fingerprints(dd.out)
        /\ Len(dd.out2) = Len(dd.out)

\* a second run on a different order of rows with duplicates
C8_Witness ==
    /\ dd.pc = "second"
    /\ dd.inp2 # dd.inp
    /\ Len(dd.inp2) = Len(dd.inp)
    /\ Len(dd.out) < Len(dd.inp)
    /\ dd.out2 # dd.out

\* C9: the frame fetch_all_news returns is in descending order of date.
C9_SortedDescending ==
    pc = "done" => \A i \in 1..(Len(df) - 1) : df[i].date >= df[i + 1].date

\* a result of three rows or more, in an order the records did not arrive in
C9_Witness ==
    /\ pc = "done"
    /\ Len(df) >= 3
    /\ \E i \in 1..(Len(df) - 1) : df[i].date > df[i + 1].date
    /\ \E i \in 1..(Len(news_items) - 1) : news_items[i].date < news_items[i + 1].date

\* C10: cutoff_date is the construction time minus days_lookback; a fetch
\* returns no article dated before cutoff_date, and returns every entry with
\* a title and a link whose date is exactly cutoff_date.
C10_RecencyInclusive ==
    /\ pc \notin {"start", "off"} => cutoff_date = 0 - days_lookback
    /\ \A i \in 1..Len(futures) :
         futures[i].state = "finished" =>
           /\ \A k \in 1..Len(futures[i].result) :
                futures[i].result[k].published >= cutoff_date
           /\ \A k \in 1..Len(futures[i].resolved) :
                futures[i].resolved[k].date = cutoff_date =>
                  \E a \in Range(futures[i].result) :
                    /\ a.title = futures[i].resolved[k].title
                    /\ a.link = futures[i].resolved[k].link
                    /\ a.published = cutoff_date

\* a fetch that returned an entry dated exactly cutoff_date and dropped an
\* older one
C10_Witness ==
    \E i \in 1..Len(futures) :
      /\ futures[i].state = "finished"
      /\ \E a \in Range(futures[i].result) : a.published = cutoff_date
      /\ \E i2 \in 1..Len(futures) :
           /\ futures[i2].state = "finished"
           /\ \E r \in Range(futures[i2].resolved) : r.date < cutoff_date

(***************************************************************************)
(* The specifications of the pure functions share the variable dd: the     *)
(* input drawn, and the output once the function has run.                  *)
(***************************************************************************)
\* fetch_all_news is not running
MainOff ==
    /\ RSS_FEEDS = [general_news |-> <<>>, team_feeds |-> <<>>]
    /\ max_workers = 1
    /\ days_lookback = 1
    /\ pc = "off"
    /\ cutoff_date = 0
    /\ success_count = 0
    /\ error_count = 0
    /\ news_items = <<>>
    /\ team_idx = 0
    /\ df = <<>>
    /\ fpc = "none"
    /\ feeds = <<>>
    /\ articles = <<>>
    /\ futures = <<>>
    /\ work_queue = <<>>
    /\ workers = <<>>
    /\ submitted_total = 0

(***************************************************************************)
(* Timestamp resolution (lines 87-94) as a function of the entry.          *)
(***************************************************************************)
\* the values a time field of an entry may have: absent, rejected by
\* datetime(), or a day in -MaxLookback..MaxClock
TimeValues == {NoTime, BadTime} \cup {Time(d) : d \in (0 - MaxLookback)..MaxClock}

\* the entries: published_parsed, updated_parsed, and what a parse of the
\* string-formatted date field (entry['published']) would give
ResolveEntries ==
    [published_parsed : TimeValues, updated_parsed : TimeValues,
     date_string : TimeValues]

InitResolve ==
    /\ MainOff
    /\ dd \in {[pc |-> "in", entry |-> e, now |-> n, date |-> 0] :
                 e \in ResolveEntries, n \in 0..MaxClock}

\* lines 87-94 on the entry
ResolveDate ==
    /\ dd.pc = "in"
    /\ dd' = [dd EXCEPT !.pc = "out", !.date = pub_date(dd.entry, dd.now)]
    /\ UNCHANGED main_vars

SpecResolve == InitResolve /\ [][ResolveDate]_vars

\* C11, as claimed: the resolved timestamp is the publish timestamp if it is
\* present and parseable, otherwise the updated timestamp if it is present and
\* parseable, otherwise the parse of the string date field if it parses,
\* otherwise the current time.
C11_ResolutionOrder ==
    dd.pc = "out" =>
        dd.date =
            IF dd.entry.published_parsed.kind = "ok" THEN dd.entry.published_parsed.t
            ELSE IF dd.entry.updated_parsed.kind = "ok" THEN dd.entry.updated_parsed.t
            ELSE IF dd.entry.date_string.kind = "ok" THEN dd.entry.date_string.t
            ELSE dd.now

(***************************************************************************)
(* Entries without a date.                                                 *)
(***************************************************************************)
Urls == {"u1", "u2", "u3"}

\* an entry that passes line 84 and has no time datetime() accepts
no_parseable_date(entry) ==
    /\ ~entry_skipped(entry)
    /\ entry.published_parsed.kind # "ok"
    /\ entry.updated_parsed.kind # "ok"

\* the rows of a frame that come from an entry without a parseable date
NoDateRow(row) ==
    \E url \in Urls : \E e \in Range(feed_entries(url)) :
        /\ no_parseable_date(e)
        /\ row.headline = Strip(e.title)
        /\ row.link = e.link

\* every entry without a parseable date of a feed fetched with success is in
\* the list the fetch returns, dated at or after the construction of the
\* FeedFetcher (day 0)
FallbackKept ==
    \A i \in 1..Len(futures) :
      (futures[i].state = "finished" /\ futures[i].outcome = "ok") =>
        \A e \in Range(feed_entries(feeds[i][1])) :
          no_parseable_date(e) =>
            \E a \in Range(futures[i].result) :
              /\ a.title = Strip(e.title)
              /\ a.link = e.link
              /\ a.published \in 0..MaxClock

\* C12, as claimed: an entry with a title and a link and no parseable date is
\* dated now, passes the recency filter for every days_lookback, and is the
\* first row of the sorted frame fetch_all_news returns.
C12_FallbackFirst ==
    /\ FallbackKept
    /\ pc = "done" =>
         \A r \in Range(news_items) :
           NoDateRow(r) =>
             /\ df # <<>>
             /\ df[1].headline = r.headline
             /\ df[1].link = r.link

\* C12, amended: an entry with a title and a link and no parseable date is
\* dated now, passes the recency filter for every days_lookback, and, when
\* deduplication keeps it, comes in the sorted frame before every row of an
\* earlier date.
C12_FallbackRecent ==
    /\ FallbackKept
    /\ pc = "done" =>
         \A i, j \in 1..Len(df) :
           (NoDateRow(df[i]) /\ df[j].date < df[i].date) => i < j

\* a sorted frame where the row without a date is behind a row of a later
\* date and before a row of an earlier date
C12_Witness ==
    /\ pc = "done"
    /\ \E i, j, k \in 1..Len(df) :
         /\ j < i /\ i < k
         /\ NoDateRow(df[i])
         /\ df[j].date > df[i].date
         /\ df[k].date < df[i].date

(***************************************************************************)
(* extract_team_from_title as a function of the headline and the teams.    *)
(***************************************************************************)
\* the words of the headlines: "Jets", "BILLS", "rams", "Draft", "top"
HeadlineWords ==
    {<<74,101,116,115>>, <<66,73,76,76,83>>, <<114,97,109,115>>, <<68,114,97,102,116>>, <<116,111,112>>}

\* the headlines: up to MaxWords words joined by spaces
Headlines == {JoinSpace(w) : w \in SeqsUpTo(HeadlineWords, MaxWords)}

\* a CONFIG['teams'] whose names contain no keyword: "top Draft", "Draft"
OtherTeams == <<<<116,111,112,32,68,114,97,102,116>>, <<68,114,97,102,116>>>>

InitTeam ==
    /\ MainOff
    /\ dd \in {[pc |-> "in", text |-> h, teams |-> ts, out |-> <<>>] :
                 h \in Headlines, ts \in {TEAMS, OtherTeams}}

\* the call extract_team_from_title(text, teams)
ExtractTeam ==
    /\ dd.pc = "in"
    /\ dd' = [dd EXCEPT !.pc = "out",
                        !.out = extract_team_from_title(dd.text, dd.teams)]
    /\ UNCHANGED main_vars

SpecTeam == InitTeam /\ [][ExtractTeam]_vars

\* C13: extract_team_from_title returns the category of the first entry of
\* the keyword table whose keyword occurs in the upper-cased headline, wherever
\* in the headline it occurs; when no keyword occurs, the first team of the
\* teams list whose upper-cased name occurs; 'NFL General' exactly when neither
\* a keyword nor a team name occurs.
C13_KeywordOrder ==
    dd.pc = "out" =>
      LET up == Upper(dd.text)
          occurs(i) == FirstPos(team_keywords[i][1], up) > 0
          named(k) == FirstPos(Upper(dd.teams[k]), up) > 0
          K == 1..Len(team_keywords)
          T == 1..Len(dd.teams)
      IN  /\ \A i \in K :
                (occurs(i) /\ \A j \in 1..(i - 1) : ~occurs(j)) =>
                  dd.out = team_keywords[i][2]
          /\ (\A i \in K : ~occurs(i)) =>
                \A k \in T :
                  (named(k) /\ \A j \in 1..(k - 1) : ~named(j)) =>
                    dd.out = dd.teams[k]
          /\ dd.out = NFL_General <=>
                ((\A i \in K : ~occurs(i)) /\ (\A k \in T : ~named(k)))

\* a headline with two keywords, where the one that comes later in the text
\* comes earlier in the table and gives the category
C13_Witness ==
    /\ dd.pc = "out"
    /\ LET up == Upper(dd.text) IN
       \E i, j \in 1..Len(team_keywords) :
         /\ i < j
         /\ FirstPos(team_keywords[j][1], up) > 0
         /\ FirstPos(team_keywords[i][1], up) > FirstPos(team_keywords[j][1], up)
         /\ dd.out = team_keywords[i][2]
         /\ dd.out # team_keywords[j][2]

(***************************************************************************)
(* Category of the records.                                                *)
(***************************************************************************)
\* C14: every record appended for a team feed carries the name of that team
\* as configured, whatever its headline says; every record appended for a
\* general feed carries the team extract_team_from_title infers from its
\* headline.
C14_TeamVerbatim ==
    [][
        /\ (pc = "team_call" /\ pc' = "teams") =>
            /\ Len(news_items') = Len(news_items) + Len(articles)
            /\ \A k \in 1..Len(articles) :
                 /\ news_items'[Len(news_items) + k].headline = articles[k].title
                 /\ news_items'[Len(news_items) + k].team =
                        RSS_FEEDS.team_feeds[team_idx + 1].team
        /\ (pc = "general_call" /\ pc' = "teams") =>
            /\ Len(news_items') = Len(news_items) + Len(articles)
            /\ \A k \in 1..Len(articles) :
                 /\ news_items'[Len(news_items) + k].headline = articles[k].title
                 /\ news_items'[Len(news_items) + k].team =
                        extract_team_from_title(articles[k].title, TEAMS)
    ]_vars

\* a record of the Buffalo Bills feed whose headline names the Jets, after
\* records of a general feed with an inferred team
C14_Witness ==
    /\ \E r \in Range(news_items) :
         /\ r.source = Buffalo_Bills
         /\ r.team = Buffalo_Bills
         /\ extract_team_from_title(r.headline, TEAMS) = New_York_Jets
    /\ \E r \in Range(news_items) :
         /\ r.source \in {ESPN, CBS}
         /\ r.team # NFL_General

(***************************************************************************)
(* Title and link of the articles.                                         *)
(***************************************************************************)
\* C15, as claimed: every article fetch_single_feed returns has a headline
\* and a link that are non-empty after trimming; an entry whose title or link
\* is empty or only whitespace gives no article.
C15_TitleAndLinkNonEmpty ==
    \A i \in 1..Len(futures) :
      futures[i].state = "finished" =>
        \A a \in Range(futures[i].result) :
          /\ Strip(a.title) # <<>>
          /\ Strip(a.link) # <<>>

(***************************************************************************)
(* clean_html as a function of the text.                                   *)
(***************************************************************************)
\* n times the character c
Repeat(c, n) == [i \in 1..n |-> c]

\* Pieces of markup and whitespace with what is left of them in the cleaned
\* text.  Before the first word: nothing, a space, "<b>", "<p class='x'> ".
LeadPieces ==
    {[raw |-> <<>>, clean |-> <<>>],
     [raw |-> <<32>>, clean |-> <<>>],
     [raw |-> <<60,98,62>>, clean |-> <<>>],
     [raw |-> <<60,112,32,99,108,97,115,115,61,39,120,39,62,32>>, clean |-> <<>>]}

\* between two words: a space, two spaces with a tab and a newline, "<br/>",
\* " <i> "
MidPieces ==
    {[raw |-> <<32>>, clean |-> <<32>>],
     [raw |-> <<32,32,9,10>>, clean |-> <<32>>],
     [raw |-> <<60,98,114,47,62>>, clean |-> <<>>],
     [raw |-> <<32,60,105,62,32>>, clean |-> <<32>>]}

\* after the last word: nothing, two spaces, "</p>", and "<>", which the
\* pattern does not match
TailPieces ==
    {[raw |-> <<>>, clean |-> <<>>],
     [raw |-> <<32,32>>, clean |-> <<>>],
     [raw |-> <<60,47,112,62>>, clean |-> <<>>],
     [raw |-> <<60,62>>, clean |-> <<60,62>>]}

\* the texts: a word of 'x', a middle piece and a word of 'y' between a lead
\* and a tail piece, such that the cleaned text has n characters
SummaryText(lead, mid, tail, n) ==
    LET k == SummaryCap \div 2
        m == n - k - Len(mid.clean) - Len(tail.clean)
    IN  [raw |-> lead.raw \o Repeat(120, k) \o mid.raw \o Repeat(121, m) \o tail.raw,
         clean |-> Repeat(120, k) \o mid.clean \o Repeat(121, m) \o tail.clean]

\* the arguments of clean_html: the texts above, '' and " <b> </b> "
SummaryTexts ==
    {SummaryText(lead, mid, tail, n) :
        lead \in LeadPieces, mid \in MidPieces, tail \in TailPieces,
        n \in (SummaryCap - MaxPad)..(SummaryCap + MaxPad)}
    \cup {[raw |-> <<>>, clean |-> <<>>],
          [raw |-> <<32,60,98,62,32,60,47,98,62,32>>, clean |-> <<>>]}

InitClean ==
    /\ MainOff
    /\ dd \in {[pc |-> "in", raw |-> x.raw, clean |-> x.clean, out |-> <<>>] :
                 x \in SummaryTexts}

\* the call clean_html(text)
CleanHtml ==
    /\ dd.pc = "in"
    /\ dd' = [dd EXCEPT !.pc = "out", !.out = clean_html(dd.raw)]
    /\ UNCHANGED main_vars

SpecClean == InitClean /\ [][CleanHtml]_vars

\* C16: clean_html returns the text without its tags and with its whitespace
\* collapsed when that has at most 300 characters, and otherwise the first 300
\* characters of it followed by '...'; the output without the marker never
\* has more than 300 characters.
C16_SummaryCap ==
    dd.pc = "out" =>
      /\ Len(dd.clean) <= SummaryCap => dd.out = dd.clean
      /\ Len(dd.clean) > SummaryCap =>
            dd.out = SubSeq(dd.clean, 1, SummaryCap) \o <<46, 46, 46>>
      /\ Len(dd.out) > SummaryCap =>
            /\ Len(dd.out) = SummaryCap + 3
            /\ SubSeq(dd.out, SummaryCap + 1, SummaryCap + 3) = <<46, 46, 46>>

\* a text with markup whose cleaned form is over the cap and was cut, ending
\* in the marker
C16_Witness ==
    /\ dd.pc = "out"
    /\ dd.raw # dd.clean
    /\ Len(dd.clean) > SummaryCap
    /\ Len(dd.out) = SummaryCap + 3
    /\ dd.out # dd.clean

(***************************************************************************)
(* General feeds before team feeds.                                        *)
(***************************************************************************)
\* the source of a record: the name of a general feed, or the team of a team
\* feed
GeneralNames == {ESPN, CBS}
TeamNames == Range(TEAMS)

\* C17: the records of the general feeds are appended before any team feed is
\* fetched, so they come before the records of the team feeds in news_items;
\* when a record of a general feed and a record of a team feed have the same
\* headline, the one deduplication keeps is from a general feed and has the
\* inferred team, in every order of completion.  The records of the teams
\* come in the order of team_feeds, so only the order inside one batch varies.
C17_GeneralSurvives ==
    /\ pc \in {"general", "general_call"} =>
         /\ news_items = <<>>
         /\ \A i \in 1..Len(feeds) : feeds[i][2] \in GeneralNames
    /\ \A i \in 1..Len(feeds) :
         feeds[i][2] \in TeamNames => pc \notin {"start", "general", "general_call"}
    /\ \A i, j \in 1..Len(news_items) :
         (news_items[i].source \in TeamNames /\ news_items[j].source \in GeneralNames)
            => j < i
    /\ \A i, j \in 1..Len(news_items) : \A a, b \in 1..Len(RSS_FEEDS.team_feeds) :
         (/\ news_items[i].source = RSS_FEEDS.team_feeds[a].team
          /\ news_items[j].source = RSS_FEEDS.team_feeds[b].team
          /\ a < b) => i < j
    /\ pc \in {"sort", "done"} =>
         \A g \in Range(news_items) : \A r \in Range(df) :
           (/\ g.source \in GeneralNames
            /\ create_hash(r.headline) = create_hash(g.headline)) =>
              /\ r.source \in GeneralNames
              /\ r.team = extract_team_from_title(r.headline, TEAMS)

\* a finished run where a record of a general feed and a record of the
\* Buffalo Bills feed had the same headline, and the one in the result is the
\* general one, with the team inferred from the headline
C17_Witness ==
    /\ pc = "done"
    /\ \E g, t \in Range(news_items) :
         /\ g.source \in GeneralNames
         /\ t.source = Buffalo_Bills
         /\ t.headline = g.headline
         /\ t.team # g.team
         /\ \E r \in Range(df) :
              /\ r.headline = g.headline
              /\ r.source \in GeneralNames
              /\ r.team = New_York_Jets

====
